---------------------------- MODULE Spec2Model ----------------------------
(***************************************************************************)
(* A model of the Chaldal scraping agent (src/final-ai-agent.py): the      *)
(* price extraction of one product element, the scroll loop that loads a   *)
(* category page, scrape_product_data and view_scraped_data with the       *)
(* SQLite store, the category cache file with the sweep that writes it and *)
(* get_category_url that reads it, and the tool dispatch of run_ai_agent.  *)
(* The browser sessions and the store connections the operations open are  *)
(* part of the state.                                                      *)
(*                                                                         *)
(* Text is modelled as a sequence of one-character strings, so that the    *)
(* regular-expression stripping, float() and the "%.1f" formatting of the  *)
(* source are computed and not assumed.                                    *)
(***************************************************************************)
EXTENDS Integers, Sequences, FiniteSets, TLC

VARIABLES
    \* extract_price_info on one product element
    product_element, price_info, price_pc,
    \* scroll_to_load_products
    max_scrolls, last_height, scroll_count, no_change_count, scroll_pc,
    scroll_actions,
    \* whether each of the last rounds left the height unchanged (recorded for
    \* the properties)
    recent_rounds,
    \* the SQLite store: the committed tables and whether they exist
    schema, products, scraping_logs,
    \* scrape_product_data: position, argument, locals, resources, result
    pc, category, product_elements, products_data, insert_index, conn,
    driver_open, exc, ret,
    \* the number of invocations so far, and what the current invocation has
    \* done (recorded for the properties; the program does not read them)
    runs, products_at_start, logs_at_start, store_fault, extracted,
    committed, log_failed, error_logged, timed_out, prev_run,
    \* view_scraped_data: arguments and result
    view_category, view_limit, view_result,
    \* the category cache file, and extract_and_verify_categories: position,
    \* loop index, the dictionary being built, the page just loaded
    cache_file, vpc, entry_index, verified_categories, category_page,
    \* whether the browser session of the sweep is open
    sweep_driver_open,
    \* the number of sweeps so far, the outcome of each visit of the current
    \* sweep and the file at its call (recorded for the properties)
    sweeps, outcomes, cache_at_start,
    \* get_category_url: argument and result
    category_name, category_url,
    \* run_ai_agent: position, the tool calls of the message, loop index,
    \* the results, whether an exception was raised, the response
    apc, tool_calls, call_index, results, agent_raised, response

priceVars == <<product_element, price_info, price_pc>>
scrollVars == <<max_scrolls, last_height, scroll_count, no_change_count,
                scroll_pc, scroll_actions, recent_rounds>>
storeVars == <<schema, products, scraping_logs>>
localVars == <<category, product_elements, products_data, insert_index, exc>>
historyVars == <<runs, products_at_start, logs_at_start, store_fault,
                 extracted, committed, log_failed, error_logged, timed_out, prev_run>>
viewVars == <<view_category, view_limit, view_result>>
scrapeVars == <<storeVars, localVars, historyVars, pc, conn, driver_open, ret,
                viewVars>>
categoryVars == <<cache_file, vpc, entry_index, verified_categories, category_page,
                  sweeps, outcomes, cache_at_start, category_name,
                  category_url, sweep_driver_open>>
agentVars == <<apc, tool_calls, call_index, results, agent_raised, response>>
\* What the steps of one operation leave alone: the variables of the others.
notPriceVars == <<scrollVars, scrapeVars, categoryVars, agentVars>>
notScrollVars == <<priceVars, scrapeVars, categoryVars, agentVars>>
notScrapeVars == <<priceVars, scrollVars, categoryVars, agentVars>>
notCategoryVars == <<priceVars, scrollVars, scrapeVars, agentVars>>
notAgentVars == <<priceVars, scrollVars, scrapeVars, categoryVars>>
vars == <<priceVars, scrollVars, scrapeVars, categoryVars, agentVars>>

\* A missing sub-element of the DOM, a missing column value (SQL NULL): a
\* value that is no text.
NULL == <<"NULL">>

-----------------------------------------------------------------------------
(* Bounds of the model *)

\* Longest generated raw text of a price sub-element.
MaxTextLen == 2
\* Page heights the browser may report are 1..MaxHeight.
MaxHeight == 3
\* Invocations of scrape_product_data in one behaviour.
MaxRuns == 2
\* Sweeps of extract_and_verify_categories in one behaviour.
MaxSweeps == 2
\* Longest generated argument of get_category_url.
MaxQueryLen == 2
\* Most tool calls in one message of the language model.
MaxToolCalls == 2

-----------------------------------------------------------------------------
(* Text *)

DigitChars == <<"0", "1", "2", "3", "4", "5", "6", "7", "8", "9">>

\* \d of the regular expression, restricted to ASCII digits.
IsDigit(c) == \E i \in 1..10 : DigitChars[i] = c

DigitValue(c) == (CHOOSE i \in 1..10 : DigitChars[i] = c) - 1

\* The characters re.sub(r'[^\d.]', '', s) keeps.
IsNumericChar(c) == IsDigit(c) \/ c = "."

\* re.sub(r'[^\d.]', '', s)
StripNonNumeric(s) == SelectSeq(s, IsNumericChar)

IsSpace(c) == c = " "

RECURSIVE LStrip(_)
LStrip(s) == IF s # <<>> /\ IsSpace(Head(s)) THEN LStrip(Tail(s)) ELSE s

RECURSIVE RStrip(_)
RStrip(s) ==
    IF s # <<>> /\ IsSpace(s[Len(s)]) THEN RStrip(SubSeq(s, 1, Len(s) - 1))
    ELSE s

\* str.strip()
Strip(s) == RStrip(LStrip(s))

\* safe_text on a sub-element whose text is `field`; NULL is a sub-element
\* that does not exist (NoSuchElementException, caught).
safe_text(field) == IF field = NULL THEN <<>> ELSE Strip(field)

RECURSIVE DigitsToInt(_)
DigitsToInt(s) ==
    IF s = <<>> THEN 0
    ELSE 10 * DigitsToInt(SubSeq(s, 1, Len(s) - 1)) + DigitValue(s[Len(s)])

RECURSIVE Pow10(_)
Pow10(n) == IF n = 0 THEN 1 ELSE 10 * Pow10(n - 1)

\* The value float() raises ValueError on.
ValueError == [ok |-> FALSE, num |-> 0, scale |-> 0]

\* float(s) for s made of digits and dots: num / 10^scale, or ValueError when
\* s has no digit or more than one dot.
Float(s) ==
    LET digs == SelectSeq(s, IsDigit)
        dots == Len(s) - Len(digs)
    IN  IF dots > 1 \/ digs = <<>> THEN ValueError
        ELSE [ok |-> TRUE,
              num |-> DigitsToInt(digs),
              scale |-> IF dots = 0 THEN 0
                        ELSE Len(s) - (CHOOSE i \in 1..Len(s) : s[i] = ".")]

RECURSIVE IntToChars(_)
IntToChars(n) ==
    IF n < 10 THEN <<DigitChars[n + 1]>>
    ELSE IntToChars(n \div 10) \o <<DigitChars[(n % 10) + 1]>>

Abs(n) == IF n < 0 THEN 0 - n ELSE n

Max(a, b) == IF a >= b THEN a ELSE b

\* f"{discount:.1f}%" for a discount of `tenths` tenths of a percent;
\* `negative` is the sign of the unrounded value, which the format keeps
\* ("-0.0") when the value rounds to zero.
FormatPercent(tenths, negative) ==
    (IF negative THEN <<"-">> ELSE <<>>)
        \o IntToChars(Abs(tenths) \div 10)
        \o <<".", DigitChars[(Abs(tenths) % 10) + 1], "%">>


-----------------------------------------------------------------------------
(* extract_price_info *)

\* The value of orig_val / disc_val at the precision of the finer of the two.
Scaled(v, scale) == v.num * Pow10(scale - v.scale)

\* A mutation of the rounding: the tenths are cut off, not rounded.
TruncatedTenths(orig_val, disc_val) ==
    LET scale == Max(orig_val.scale, disc_val.scale)
        o == Scaled(orig_val, scale)
    IN  {(1000 * (o - Scaled(disc_val, scale))) \div o}

\* ((orig_val - disc_val) / orig_val) * 100 rounded to tenths, as the "%.1f"
\* format rounds it.  A value exactly halfway between two tenths is rounded
\* according to its binary representation, so either neighbour may result.
DiscountTenths(orig_val, disc_val) ==
    LET scale == Max(orig_val.scale, disc_val.scale)
        o == Scaled(orig_val, scale)
        n == 1000 * (o - Scaled(disc_val, scale))
        q == n \div o
        r == n - q * o
    IN  IF 2 * r < o THEN {q}
        ELSE IF 2 * r > o THEN {q + 1}
        ELSE {q, q + 1}

\* if orig_val > 0:
OriginalIsPositive(orig_val) == orig_val.num > 0

\* The strings the inner try block (lines 216-223) may store in
\* price_info["discount_percentage"]; <<>> when it stores nothing.
DiscountPercentage(discounted, original) ==
    LET disc_val == Float(StripNonNumeric(discounted))
        orig_val == Float(StripNonNumeric(original))
    IN  IF ~disc_val.ok \/ ~orig_val.ok THEN {<<>>}   \* except: pass
        ELSE IF ~OriginalIsPositive(orig_val) THEN {<<>>}
        ELSE {FormatPercent(t, Scaled(orig_val, Max(orig_val.scale, disc_val.scale))
                                 < Scaled(disc_val, Max(orig_val.scale, disc_val.scale))) :
                 t \in DiscountTenths(orig_val, disc_val)}

\* A mutation of the lookup: the plain price is taken when there is one.
plain_price_first(element) ==
    IF safe_text(element.price) # <<>>
    THEN {[price |-> safe_text(element.price), original_price |-> <<>>,
           discount_percentage |-> <<>>]}
    ELSE {[price |-> safe_text(element.discountedPrice),
           original_price |-> safe_text(element.originalPrice),
           discount_percentage |-> <<>>]}

\* The results extract_price_info may return for a product element.
extract_price_info(element) ==
    LET discounted == safe_text(element.discountedPrice)
        original == safe_text(element.originalPrice)
        regular_price == safe_text(element.price)
    IN  IF discounted # <<>> THEN
            IF original # <<>> THEN
                {[price |-> discounted, original_price |-> original,
                  discount_percentage |-> d] :
                     d \in DiscountPercentage(discounted, original)}
            ELSE {[price |-> discounted, original_price |-> <<>>,
                   discount_percentage |-> <<>>]}
        ELSE {[price |-> regular_price, original_price |-> <<>>,
               discount_percentage |-> <<>>]}

\* Characters of the generated raw texts: digits, the decimal point and a
\* space (which both str.strip and the regular expression remove).
Alphabet == {"0", "1", "5", ".", " "}

RECURSIVE Texts(_)
Texts(n) ==
    IF n = 0 THEN {<<>>}
    ELSE LET shorter == Texts(n - 1)
         IN  shorter \cup {Append(s, c) : s \in shorter, c \in Alphabet}

\* Price texts as the site prints them.
SampleTexts == {<<"7", "5">>, <<"1", "0", "0">>, <<"$", " ", "1", "0", "0">>,
                <<"$", "7", "5", ".", "5", "0">>, <<"$", "8", "0">>,
                <<"$", "7", "9">>, <<"1", ".", "2", ".", "3">>}

\* The text of a price sub-element, or NULL when the element has none.
RawTexts == Texts(MaxTextLen) \cup SampleTexts \cup {NULL}

\* The text of the plain price sub-element in the price specification.
SamplePrices == {NULL, <<"$", "9">>, <<" ">>}

InitPrice ==
    /\ product_element \in [discountedPrice : RawTexts,
                            originalPrice : RawTexts,
                            price : SamplePrices]
    /\ price_info = [price |-> <<>>, original_price |-> <<>>,
                     discount_percentage |-> <<>>]
    /\ price_pc = "call"

ExtractPriceInfo ==
    /\ price_pc = "call"
    /\ price_info' \in extract_price_info(product_element)
    /\ price_pc' = "return"
    /\ UNCHANGED <<product_element, notPriceVars>>

\* The price variables while no element is being extracted.
InitPriceIdle ==
    /\ product_element = [discountedPrice |-> NULL, originalPrice |-> NULL,
                          price |-> NULL]
    /\ price_info = [price |-> <<>>, original_price |-> <<>>,
                     discount_percentage |-> <<>>]
    /\ price_pc = "idle"

\* The scroll variables while no page is being scrolled.
InitScrollIdle ==
    /\ max_scrolls = 0
    /\ last_height = 0
    /\ scroll_count = 0
    /\ no_change_count = 0
    /\ scroll_pc = "idle"
    /\ scroll_actions = 0
    /\ recent_rounds = <<>>

NextPrice == ExtractPriceInfo

-----------------------------------------------------------------------------
(* scroll_to_load_products *)

\* MAX_SCROLLS, the default of max_scrolls.
MAX_SCROLLS == 20

\* The number of consecutive unchanged rounds that ends the loop.
NoChangeLimit == 3

Heights == 1..MaxHeight

\* A mutation of the loop condition: one round too many.
LoopConditionOffByOne(count, limit, unchanged) ==
    count <= limit /\ unchanged < NoChangeLimit

\* while scroll_count < max_scrolls and no_change_count < 3:
LoopCondition(count, limit, unchanged) ==
    count < limit /\ unchanged < NoChangeLimit

InitScroll ==
    /\ max_scrolls \in 0..MAX_SCROLLS
    /\ last_height = 0
    /\ scroll_count = 0
    /\ no_change_count = 0
    /\ scroll_pc = "call"
    /\ scroll_actions = 0
    /\ recent_rounds = <<>>

\* last_height = driver.execute_script("return document.body.scrollHeight")
ReadInitialHeight ==
    /\ scroll_pc = "call"
    /\ last_height' \in Heights
    /\ scroll_pc' = "loop"
    /\ UNCHANGED <<max_scrolls, scroll_count, no_change_count, scroll_actions,
                   recent_rounds, notScrollVars>>

\* A mutation of the counter: a changed height does not reset it.
NoChangeCountWithoutReset(count, new_height, height) ==
    IF new_height = height THEN count + 1 ELSE count

\* if new_height == last_height: no_change_count += 1
\* else: no_change_count = 0
NoChangeCount(count, new_height, height) ==
    IF new_height = height THEN count + 1 ELSE 0

\* The last NoChangeLimit elements of the record of the rounds: for each
\* round, whether it left the height unchanged.
LastRounds(rounds) ==
    IF Len(rounds) <= NoChangeLimit THEN rounds
    ELSE SubSeq(rounds, Len(rounds) - NoChangeLimit + 1, Len(rounds))

\* One round of the loop: scroll, sleep, read the new height, count.
ScrollRound ==
    /\ scroll_pc = "loop"
    /\ LoopCondition(scroll_count, max_scrolls, no_change_count)
    /\ \E new_height \in Heights :
          /\ no_change_count' =
                NoChangeCount(no_change_count, new_height, last_height)
          /\ recent_rounds' =
                LastRounds(Append(recent_rounds, new_height = last_height))
          /\ last_height' = new_height
    /\ scroll_count' = scroll_count + 1
    /\ scroll_actions' = scroll_actions + 1
    /\ UNCHANGED <<max_scrolls, scroll_pc, notScrollVars>>

\* The loop condition is false: count the products, log and return.
ScrollReturn ==
    /\ scroll_pc = "loop"
    /\ ~LoopCondition(scroll_count, max_scrolls, no_change_count)
    /\ scroll_pc' = "done"
    /\ UNCHANGED <<max_scrolls, last_height, scroll_count, no_change_count,
                   scroll_actions, recent_rounds, notScrollVars>>

\* A call to the driver raises (WebDriverException): the function is left
\* with the exception.
ScrollRaises ==
    /\ scroll_pc \in {"call", "loop"}
    /\ scroll_pc' = "raised"
    /\ UNCHANGED <<max_scrolls, last_height, scroll_count, no_change_count,
                   scroll_actions, recent_rounds, notScrollVars>>

NextScroll == ReadInitialHeight \/ ScrollRound \/ ScrollReturn \/ ScrollRaises

-----------------------------------------------------------------------------
(* The store *)

\* The category arguments of the model.
Categories == {"rice", "dal"}

\* UNIQUE(name, category, subcategory): two rows violate it when all three
\* columns are equal.  SQLite holds NULL values distinct from each other in
\* a UNIQUE constraint, so a row with a NULL column never conflicts.
UniqueConflict(row, new) ==
    /\ row.name = new.name
    /\ row.category = new.category
    /\ row.subcategory # NULL
    /\ new.subcategory # NULL
    /\ row.subcategory = new.subcategory

\* INSERT OR REPLACE INTO products: the rows in conflict with the new row
\* are removed, the new row is added.
InsertOrReplace(rows, new) ==
    LET Kept(row) == ~UniqueConflict(row, new)
    IN  Append(SelectSeq(rows, Kept), new)

\* The row the INSERT statement builds from a product_data record: the
\* statement names no subcategory column, which is left NULL.
ProductRow(product, scraped_at) ==
    [name |-> product.name,
     price |-> product.price,
     original_price |-> product.original_price,
     discount_percentage |-> product.discount_percentage,
     quantity |-> product.quantity,
     category |-> product.category,
     subcategory |-> NULL,
     product_url |-> product.product_url,
     image_url |-> product.image_url,
     scraped_at |-> scraped_at]

\* A mutation of the DELETE statement: the WHERE clause is left out.
DeleteEveryCategory(rows, c) == <<>>

\* A mutation of the DELETE statement: nothing is deleted.
DeleteNothing(rows, c) == rows

\* DELETE FROM products WHERE category = ?
DeleteCategory(rows, c) ==
    LET Kept(row) == row.category # c
    IN  SelectSeq(rows, Kept)

\* A mutation of conn.commit(): the table is left as it was.
CommitNothing(table, working) == table

\* conn.commit(): the connection's working copy becomes the table.
Commit(table, working) == working

\* A mutation of the transaction: every statement is committed at once.
Autocommit(table, working) == working

\* cursor.execute of a DELETE or an INSERT, inside the transaction that
\* sqlite3 opens before the first of them: the committed table is as it was
\* until conn.commit().
Uncommitted(table, working) == table

\* A connection that is not open.
Closed == [open |-> FALSE, products |-> <<>>, scraping_logs |-> <<>>]

\* sqlite3.connect: an open connection that sees the committed tables.
Connect == [open |-> TRUE, products |-> products, scraping_logs |-> scraping_logs]

\* A mutation of the finally clause of get_db_connection: no close.
conn_left_open(c) == c

\* finally: if conn: conn.close() -- the connection is closed and what it
\* had not committed is lost with it.
conn_close(c) == Closed

\* A mutation of the finally clause of get_chrome_driver: no quit.
driver_left_open(open) == open

\* finally: if driver: driver.quit() -- whether the session is open after
\* the with block of get_chrome_driver is left.
driver_quit(open) == FALSE

\* A row of scraping_logs.
LogRow(c, found, saved, status, message) ==
    [category |-> c, products_found |-> found, products_saved |-> saved,
     status |-> status, error_message |-> message]

-----------------------------------------------------------------------------
(* Product elements of a category page *)

ElemA1 ==
    [name |-> <<"A">>, discountedPrice |-> <<"7", "5">>,
     originalPrice |-> <<"1", "0", "0">>, price |-> NULL,
     subText |-> <<"1", "k", "g">>, href |-> <<"u", "1">>, src |-> <<"i", "1">>,
     stale |-> FALSE]

\* The same name as ElemA1, other fields.
ElemA2 ==
    [name |-> <<" ", "A">>, discountedPrice |-> NULL, originalPrice |-> NULL,
     price |-> <<"$", "9">>, subText |-> NULL, href |-> NULL, src |-> NULL,
     stale |-> FALSE]

ElemB ==
    [name |-> <<"B">>, discountedPrice |-> <<"5">>, originalPrice |-> <<"0">>,
     price |-> <<"5">>, subText |-> <<"2">>, href |-> <<"u", "2">>, src |-> NULL,
     stale |-> FALSE]

\* No name sub-element.
ElemNoName ==
    [name |-> NULL, discountedPrice |-> NULL, originalPrice |-> NULL,
     price |-> <<"$", "9">>, subText |-> NULL, href |-> NULL, src |-> NULL,
     stale |-> FALSE]

\* A name sub-element that holds white space only.
ElemBlankName ==
    [name |-> <<" ">>, discountedPrice |-> <<"7", "5">>, originalPrice |-> NULL,
     price |-> NULL, subText |-> NULL, href |-> NULL, src |-> NULL,
     stale |-> FALSE]

\* An element that has left the DOM when it is read: every access raises.
ElemStale ==
    [name |-> <<"B">>, discountedPrice |-> NULL, originalPrice |-> NULL,
     price |-> <<"5">>, subText |-> NULL, href |-> NULL, src |-> NULL,
     stale |-> TRUE]

\* The lists driver.find_elements(By.CLASS_NAME, "product") may return.
Pages == {<<ElemNoName>>, <<ElemA1>>, <<ElemA1, ElemA2>>,
          <<ElemA2, ElemStale, ElemBlankName>>, <<ElemB, ElemA1>>}

\* A mutation of the name check: every element is kept.
KeepUnnamed(name) == TRUE

\* if not name: continue
HasName(name) == name # <<>>

\* find_element(By.TAG_NAME, ...).get_attribute(...), "" when there is no
\* such element (bare except).
AttributeOrEmpty(field) == IF field = NULL THEN <<>> ELSE field

\* The body of the extraction loop for one element: the product_data
\* records it may append, none when the element is skipped.
ExtractProduct(element, c) ==
    IF element.stale THEN {}                      \* except Exception: continue
    ELSE IF ~HasName(safe_text(element.name)) THEN {}
    ELSE {[name |-> safe_text(element.name),
           price |-> info.price,
           original_price |-> info.original_price,
           discount_percentage |-> info.discount_percentage,
           quantity |-> safe_text(element.subText),
           category |-> c,
           product_url |-> AttributeOrEmpty(element.href),
           image_url |-> AttributeOrEmpty(element.src)] :
             info \in extract_price_info(element)}

\* The extraction loop: the lists products_data may hold after it.
RECURSIVE ExtractAll(_, _)
ExtractAll(elements, c) ==
    IF elements = <<>> THEN {<<>>}
    ELSE LET first == ExtractProduct(Head(elements), c)
             rest == ExtractAll(Tail(elements), c)
         IN  IF first = {} THEN rest
             ELSE {<<product>> \o tail : product \in first, tail \in rest}

-----------------------------------------------------------------------------
(* scrape_product_data *)

\* What the function returns: the success summary with the number of
\* products, the "no products found" message, or the error message.
NoReturn == [kind |-> "none", count |-> 0]
SuccessSummary(n) == [kind |-> "success", count |-> n]
NoProductsFound == [kind |-> "no_products", count |-> 0]
ErrorMessage == [kind |-> "error", count |-> 0]

NoRun == [category |-> "", persisted |-> FALSE, products_data |-> <<>>]

\* What view_scraped_data returns: the listing of the fetched rows, the
\* message that no product was found, or the message of an exception.
NoView == [kind |-> "none", rows |-> <<>>]
Listing(rows) == [kind |-> "listing", rows |-> rows]
NoProductsFor == [kind |-> "no_products", rows |-> <<>>]
ErrorViewing == [kind |-> "error", rows |-> <<>>]

InitScrape ==
    /\ schema = FALSE
    /\ products = <<>>
    /\ scraping_logs = <<>>
    /\ pc = "idle"
    /\ category = ""
    /\ product_elements = <<>>
    /\ products_data = <<>>
    /\ insert_index = 0
    /\ conn = Closed
    /\ driver_open = FALSE
    /\ exc = ""
    /\ ret = NoReturn
    /\ runs = 0
    /\ products_at_start = <<>>
    /\ logs_at_start = 0
    /\ store_fault = FALSE
    /\ extracted = FALSE
    /\ committed = FALSE
    /\ log_failed = FALSE
    /\ error_logged = FALSE
    /\ timed_out = FALSE
    /\ prev_run = NoRun
    /\ view_category = NULL
    /\ view_limit = 0
    /\ view_result = NoView

\* The call: start_time is taken and the try block is entered.
Scrape(c) ==
    /\ pc = "idle"
    /\ runs < MaxRuns
    /\ pc' = "init_database"
    /\ category' = c
    /\ product_elements' = <<>>
    /\ products_data' = <<>>
    /\ insert_index' = 0
    /\ exc' = ""
    /\ ret' = NoReturn
    /\ runs' = runs + 1
    /\ products_at_start' = products
    /\ logs_at_start' = Len(scraping_logs)
    /\ store_fault' = FALSE
    /\ extracted' = FALSE
    /\ committed' = FALSE
    /\ log_failed' = FALSE
    /\ error_logged' = FALSE
    /\ timed_out' = FALSE
    /\ UNCHANGED <<storeVars, conn, driver_open, prev_run, viewVars, notScrapeVars>>

\* init_database opens its connection; sqlite3.connect may raise.
InitDatabaseConnect ==
    /\ pc = "init_database"
    /\ \/ /\ conn' = Connect
          /\ pc' = "create_tables"
          /\ UNCHANGED <<exc, store_fault>>
       \/ /\ pc' = "except"
          /\ exc' = "sqlite3.Error"
          /\ store_fault' = TRUE
          /\ UNCHANGED conn
    /\ UNCHANGED <<storeVars, category, product_elements, products_data,
                   insert_index, runs, products_at_start, logs_at_start,
                   extracted, committed, log_failed, error_logged, timed_out, prev_run,
                   driver_open, ret, viewVars, notScrapeVars>>

\* CREATE TABLE IF NOT EXISTS (three times) and commit, then the connection
\* is closed; on sqlite3.Error the context manager rolls back and closes.
CreateTables ==
    /\ pc = "create_tables"
    /\ conn' = conn_close(conn)
    /\ \/ /\ schema' = TRUE
          /\ pc' = "open_driver"
          /\ UNCHANGED <<exc, store_fault>>
       \/ /\ pc' = "except"
          /\ exc' = "sqlite3.Error"
          /\ store_fault' = TRUE
          /\ UNCHANGED schema
    /\ UNCHANGED <<products, scraping_logs, category, product_elements,
                   products_data, insert_index, runs, products_at_start,
                   logs_at_start, extracted, committed, log_failed, error_logged, timed_out,
                   prev_run, driver_open, ret, viewVars, notScrapeVars>>

\* get_category_url returns a non-empty URL for every category, so the
\* "could not find URL" return is never taken; then get_chrome_driver starts
\* the browser, or raises and leaves none open.
OpenDriver ==
    /\ pc = "open_driver"
    /\ \/ /\ driver_open' = TRUE
          /\ pc' = "load_page"
          /\ UNCHANGED exc
       \/ /\ pc' = "except"
          /\ exc' = "WebDriverException"
          /\ UNCHANGED driver_open
    /\ UNCHANGED <<storeVars, category, product_elements, products_data,
                   insert_index, historyVars, conn, ret, viewVars, notScrapeVars>>

\* driver.get(url) and the wait for the first product element.  On
\* TimeoutException the function returns from inside the with block (the
\* browser is quit); any other exception leaves the block as well.
LoadPage ==
    /\ pc = "load_page"
    /\ \/ /\ pc' = "scroll"
          /\ UNCHANGED <<driver_open, exc, ret, timed_out>>
       \/ /\ pc' = "done"
          /\ driver_open' = driver_quit(driver_open)
          /\ ret' = NoProductsFound
          /\ timed_out' = TRUE
          /\ UNCHANGED exc
       \/ /\ pc' = "except"
          /\ driver_open' = driver_quit(driver_open)
          /\ exc' = "WebDriverException"
          /\ UNCHANGED <<ret, timed_out>>
    /\ UNCHANGED <<storeVars, category, product_elements, products_data,
                   insert_index, runs, products_at_start, logs_at_start,
                   store_fault, extracted, committed, log_failed, error_logged, prev_run,
                   conn, viewVars, notScrapeVars>>

\* scroll_to_load_products(driver) returns or raises; its loop is the
\* scroll specification below.
ScrollPage ==
    /\ pc = "scroll"
    /\ \/ /\ pc' = "extract"
          /\ UNCHANGED <<driver_open, exc>>
       \/ /\ pc' = "except"
          /\ driver_open' = driver_quit(driver_open)
          /\ exc' = "WebDriverException"
    /\ UNCHANGED <<storeVars, category, product_elements, products_data,
                   insert_index, historyVars, conn, ret, viewVars, notScrapeVars>>

\* find_elements and the extraction loop; the with block ends and the
\* browser is quit.
ExtractProducts ==
    /\ pc = "extract"
    /\ driver_open' = driver_quit(driver_open)
    /\ \/ \E page \in Pages :
             /\ product_elements' = page
             /\ products_data' \in ExtractAll(page, category)
             /\ extracted' = TRUE
             /\ pc' = "save"
             /\ UNCHANGED exc
       \/ /\ pc' = "except"
          /\ exc' = "WebDriverException"
          /\ UNCHANGED <<product_elements, products_data, extracted>>
    /\ UNCHANGED <<storeVars, category, insert_index, runs, products_at_start,
                   logs_at_start, store_fault, committed, log_failed, error_logged,
                   timed_out, prev_run, conn, ret, viewVars, notScrapeVars>>

\* if products_data: with nothing extracted the store is not touched and the
\* success summary is returned.
SkipSave ==
    /\ pc = "save"
    /\ products_data = <<>>
    /\ pc' = "done"
    /\ ret' = SuccessSummary(Len(products_data))
    /\ UNCHANGED <<storeVars, localVars, historyVars, conn, driver_open,
                   viewVars, notScrapeVars>>

\* with get_db_connection() as conn:
SaveConnect ==
    /\ pc = "save"
    /\ products_data # <<>>
    /\ \/ /\ conn' = Connect
          /\ pc' = "delete"
          /\ UNCHANGED <<exc, store_fault>>
       \/ /\ pc' = "except"
          /\ exc' = "sqlite3.Error"
          /\ store_fault' = TRUE
          /\ UNCHANGED conn
    /\ UNCHANGED <<storeVars, category, product_elements, products_data,
                   insert_index, runs, products_at_start, logs_at_start,
                   extracted, committed, log_failed, error_logged, timed_out, prev_run,
                   driver_open, ret, viewVars, notScrapeVars>>

\* The context manager of get_db_connection on sqlite3.Error: rollback,
\* close, re-raise to the handler of scrape_product_data.  What was not
\* committed is lost with the connection's working copy.
RollbackAndRaise ==
    /\ conn' = conn_close(conn)
    /\ pc' = "except"
    /\ exc' = "sqlite3.Error"
    /\ store_fault' = TRUE

\* cursor.execute("DELETE FROM products WHERE category = ?", (category,))
DeleteExisting ==
    /\ pc = "delete"
    /\ \/ /\ conn' = [conn EXCEPT !.products = DeleteCategory(@, category)]
          /\ pc' = "insert"
          /\ insert_index' = 1
          /\ products' = Uncommitted(products, conn'.products)
          /\ UNCHANGED <<exc, store_fault>>
       \/ /\ RollbackAndRaise
          /\ UNCHANGED <<insert_index, products>>
    /\ UNCHANGED <<schema, scraping_logs, category, product_elements, products_data, runs,
                   products_at_start, logs_at_start, extracted, committed,
                   log_failed, error_logged, timed_out, prev_run, driver_open, ret,
                   viewVars, notScrapeVars>>

\* One round of the insert loop: INSERT OR REPLACE of the next product,
\* with datetime.now() as scraped_at (the invocation and the position in the
\* batch stand for the time).
InsertProduct ==
    /\ pc = "insert"
    /\ \/ /\ conn' = [conn EXCEPT !.products =
                         InsertOrReplace(@, ProductRow(products_data[insert_index],
                                                       <<runs, insert_index>>))]
          /\ insert_index' = insert_index + 1
          /\ pc' = IF insert_index = Len(products_data)
                   THEN "commit_products" ELSE "insert"
          /\ products' = Uncommitted(products, conn'.products)
          /\ UNCHANGED <<exc, store_fault>>
       \/ /\ RollbackAndRaise
          /\ UNCHANGED <<insert_index, products>>
    /\ UNCHANGED <<schema, scraping_logs, category, product_elements, products_data, runs,
                   products_at_start, logs_at_start, extracted, committed,
                   log_failed, error_logged, timed_out, prev_run, driver_open, ret,
                   viewVars, notScrapeVars>>

\* conn.commit() after the insert loop (line 541).
CommitProducts ==
    /\ pc = "commit_products"
    /\ \/ /\ products' = Commit(products, conn.products)
          /\ committed' = TRUE
          /\ pc' = "log"
          /\ UNCHANGED <<conn, exc, store_fault>>
       \/ /\ RollbackAndRaise
          /\ UNCHANGED <<products, committed>>
    /\ UNCHANGED <<schema, scraping_logs, category, product_elements,
                   products_data, insert_index, runs, products_at_start,
                   logs_at_start, extracted, log_failed, error_logged, timed_out, prev_run,
                   driver_open, ret, viewVars, notScrapeVars>>

\* INSERT INTO scraping_logs (..., "success", duration), on the connection
\* that holds the committed products.
LogSuccess ==
    /\ pc = "log"
    /\ \/ /\ conn' = [conn EXCEPT !.scraping_logs =
                         Append(@, LogRow(category, Len(product_elements),
                                          Len(products_data), "success", ""))]
          /\ pc' = "commit_log"
          /\ UNCHANGED <<exc, store_fault, log_failed>>
       \/ /\ RollbackAndRaise
          /\ log_failed' = TRUE
    /\ UNCHANGED <<storeVars, category, product_elements, products_data,
                   insert_index, runs, products_at_start, logs_at_start,
                   extracted, committed, timed_out, prev_run, driver_open, ret,
                   error_logged, viewVars,
                   notScrapeVars>>

\* The second conn.commit() (line 551); the with block ends, the connection
\* is closed and the success summary is returned.
CommitLog ==
    /\ pc = "commit_log"
    /\ \/ /\ scraping_logs' = Commit(scraping_logs, conn.scraping_logs)
          /\ conn' = conn_close(conn)
          /\ ret' = SuccessSummary(Len(products_data))
          /\ pc' = "done"
          /\ UNCHANGED <<exc, store_fault>>
       \/ /\ RollbackAndRaise
          /\ UNCHANGED <<scraping_logs, ret>>
    /\ UNCHANGED <<schema, products, category, product_elements, products_data,
                   insert_index, runs, products_at_start, logs_at_start,
                   extracted, committed, log_failed, error_logged, timed_out, prev_run,
                   driver_open, viewVars, notScrapeVars>>

\* A mutation of the error row: the counts of the invocation are logged.
ErrorRowWithCounts(c, message) ==
    LogRow(c, Len(product_elements), Len(products_data), "error", message)

\* The row the except clause inserts: (category, 0, 0, "error", str(e)).
ErrorRow(c, message) == LogRow(c, 0, 0, "error", message)

\* except Exception as e: the error message is built and the connection for
\* the error row is opened; when sqlite3.connect raises, the failure is
\* swallowed (except: pass) and the message is returned.
HandleException ==
    /\ pc = "except"
    /\ \/ /\ conn' = Connect
          /\ pc' = "log_error"
          /\ UNCHANGED <<store_fault, ret>>
       \/ /\ store_fault' = TRUE
          /\ ret' = ErrorMessage
          /\ pc' = "done"
          /\ UNCHANGED conn
    /\ UNCHANGED <<storeVars, localVars, runs, products_at_start,
                   logs_at_start, extracted, committed, log_failed,
                   error_logged, timed_out, prev_run, driver_open, viewVars,
                   notScrapeVars>>

\* The error row is inserted and committed, or the insert fails (it fails
\* when the tables do not exist) and the failure is swallowed; either way
\* the connection is closed and the error message is returned.
LogError ==
    /\ pc = "log_error"
    /\ conn' = conn_close(conn)
    /\ \/ /\ schema
          /\ scraping_logs' = Append(scraping_logs, ErrorRow(category, exc))
          /\ error_logged' = TRUE
          /\ UNCHANGED store_fault
       \/ /\ store_fault' = TRUE
          /\ UNCHANGED <<scraping_logs, error_logged>>
    /\ ret' = ErrorMessage
    /\ pc' = "done"
    /\ UNCHANGED <<schema, products, localVars, runs, products_at_start,
                   logs_at_start, extracted, committed, log_failed, timed_out,
                   prev_run, driver_open, viewVars, notScrapeVars>>

\* The caller has the result; the locals of the invocation are gone.
Return ==
    /\ pc = "done"
    /\ pc' = "idle"
    /\ prev_run' = IF ret.kind = "success" \/ committed
                   THEN [category |-> category, persisted |-> TRUE,
                         products_data |-> products_data]
                   ELSE NoRun
    /\ category' = ""
    /\ product_elements' = <<>>
    /\ products_data' = <<>>
    /\ insert_index' = 0
    /\ exc' = ""
    /\ ret' = NoReturn
    /\ products_at_start' = <<>>
    /\ logs_at_start' = 0
    /\ store_fault' = FALSE
    /\ extracted' = FALSE
    /\ committed' = FALSE
    /\ log_failed' = FALSE
    /\ error_logged' = FALSE
    /\ timed_out' = FALSE
    /\ UNCHANGED <<storeVars, runs, conn, driver_open, viewVars, notScrapeVars>>

-----------------------------------------------------------------------------
(* The category cache: load_verified_categories and get_category_url *)

UpperChars == <<"A", "B", "C", "D", "E", "F", "G", "H", "I", "J", "K", "L",
                "M", "N", "O", "P", "Q", "R", "S", "T", "U", "V", "W", "X",
                "Y", "Z">>

LowerChars == <<"a", "b", "c", "d", "e", "f", "g", "h", "i", "j", "k", "l",
                "m", "n", "o", "p", "q", "r", "s", "t", "u", "v", "w", "x",
                "y", "z">>

\* str.lower() on one ASCII character.
LowerChar(c) ==
    IF \E i \in 1..26 : UpperChars[i] = c
    THEN LowerChars[CHOOSE i \in 1..26 : UpperChars[i] = c]
    ELSE c

\* s.lower()
Lower(s) == [i \in 1..Len(s) |-> LowerChar(s[i])]

\* a in b, of two strings
IsSubstring(a, b) ==
    \E i \in 0..(Len(b) - Len(a)) : SubSeq(b, i + 1, i + Len(a)) = a

\* A mutation of the fallback: the spaces are kept.
KeepSpaces(s) == s

\* s.replace(' ', '-')
ReplaceSpaces(s) == [i \in 1..Len(s) |-> IF s[i] = " " THEN "-" ELSE s[i]]

\* f"https://chaldal.com/{path}"
SiteUrl(path) == <<"https://chaldal.com/">> \o path

\* A dictionary is a sequence of [key, value] records: Python dictionaries
\* and JSON objects keep the order of insertion, which the partial match of
\* get_category_url depends on.
HasKey(d, key) == \E i \in 1..Len(d) : d[i].key = key

\* d[key]
Lookup(d, key) == d[CHOOSE i \in 1..Len(d) : d[i].key = key].value

\* d[key] = value
DictSet(d, key, value) ==
    IF HasKey(d, key)
    THEN [i \in 1..Len(d) |->
             IF d[i].key = key THEN [key |-> key, value |-> value] ELSE d[i]]
    ELSE Append(d, [key |-> key, value |-> value])

\* The states of the file CATEGORIES_FILE: absent, present without being
\* JSON (a write that was cut short), or the JSON document of a sweep.
MissingFile == [state |-> "missing"]
UnreadableFile == [state |-> "unreadable"]

\* if Path(CATEGORIES_FILE).exists(): try: json.load ... except: log;
\* return {}
load_verified_categories(file) ==
    IF file.state = "json" THEN file.categories ELSE <<>>

\* A mutation of the partial match: the last matching entry, not the first.
LastPartialMatch(categories, name) ==
    CHOOSE i \in 1..Len(categories) :
        /\ \/ IsSubstring(Lower(name), categories[i].key)
           \/ IsSubstring(categories[i].key, Lower(name))
        /\ \A j \in (i + 1)..Len(categories) :
              ~ \/ IsSubstring(Lower(name), categories[j].key)
                \/ IsSubstring(categories[j].key, Lower(name))

\* The index of the entry the loop "for key, data in categories.items()"
\* returns from: the first whose key contains the query or is contained in
\* it.
PartialMatch(categories, name) ==
    CHOOSE i \in 1..Len(categories) :
        /\ \/ IsSubstring(Lower(name), categories[i].key)
           \/ IsSubstring(categories[i].key, Lower(name))
        /\ \A j \in 1..(i - 1) :
              ~ \/ IsSubstring(Lower(name), categories[j].key)
                \/ IsSubstring(categories[j].key, Lower(name))

HasPartialMatch(categories, name) ==
    \E i \in 1..Len(categories) :
        \/ IsSubstring(Lower(name), categories[i].key)
        \/ IsSubstring(categories[i].key, Lower(name))

\* get_category_url: direct match, partial match, fallback.
get_category_url(file, name) ==
    LET categories == load_verified_categories(file)
    IN  IF HasKey(categories, Lower(name))
        THEN SiteUrl(Lookup(categories, Lower(name)).url)
        ELSE IF HasPartialMatch(categories, name)
        THEN SiteUrl(categories[PartialMatch(categories, name)].value.url)
        ELSE SiteUrl(ReplaceSpaces(Lower(name)))

-----------------------------------------------------------------------------
(* extract_and_verify_categories *)

\* An excerpt of category_mappings, in the order of the source: a main
\* category, one of its sub-categories, and a product category of that.
category_mappings ==
    << [name |-> <<"F", "o", "o", "d">>,
        url |-> <<"f", "o", "o", "d">>, level |-> 0, parent |-> NULL],
       [name |-> <<"C", "o", "o", "k", "i", "n", "g">>,
        url |-> <<"c", "o", "o", "k", "i", "n", "g">>, level |-> 1,
        parent |-> <<"F", "o", "o", "d">>],
       [name |-> <<"R", "i", "c", "e">>,
        url |-> <<"r", "i", "c", "e", "s">>, level |-> 2,
        parent |-> <<"C", "o", "o", "k", "i", "n", "g">>] >>

\* What a loaded category page shows: its title, the number of elements of
\* class "product", and whether it has breadcrumb or navigation elements.
Titles == { <<"C", "h", "a", "l", "d", "a", "l">>,
            <<"C", "h", "a", "l", "d", "a", "l", " ", "4", "0", "4">>,
            <<"4", "0", "4">>,
            <<"O", "o", "p", "s">> }

ProductCounts == {0, 3}

LoadedPages ==
    [title : Titles, product_count : ProductCounts, breadcrumb : BOOLEAN]

NoPage == [title |-> <<>>, product_count |-> 0, breadcrumb |-> FALSE]

\* is_valid = ("chaldal" in page_title or has_products
\*             or "404" not in page_title)
is_valid(page_title, product_count) ==
    \/ IsSubstring(<<"c", "h", "a", "l", "d", "a", "l">>, page_title)
    \/ product_count > 0
    \/ ~IsSubstring(<<"4", "0", "4">>, page_title)

\* The value stored under name.lower() for a valid page.
VerifiedEntry(info, product_count, now) ==
    [name |-> info.name,
     url |-> info.url,
     level |-> info.level,
     parent |-> info.parent,
     product_count |-> product_count,
     verified |-> TRUE,
     verified_at |-> now]

\* A mutation of save_data: the new entries are merged into the old file.
MergeIntoFile(file, categories, now) ==
    [state |-> "json",
     last_updated |-> now,
     total_categories |-> Len(categories),
     categories |-> load_verified_categories(file) \o categories]

\* save_data, as json.dump writes it over the old file.
SaveData(file, categories, now) ==
    [state |-> "json",
     last_updated |-> now,
     total_categories |-> Len(categories),
     categories |-> categories]

InitCategories ==
    /\ cache_file = MissingFile
    /\ vpc = "idle"
    /\ entry_index = 0
    /\ verified_categories = <<>>
    /\ category_page = NoPage
    /\ sweeps = 0
    /\ outcomes = <<>>
    /\ cache_at_start = MissingFile
    /\ category_name = <<>>
    /\ category_url = <<>>
    /\ sweep_driver_open = FALSE

\* A call of extract_and_verify_categories, from refresh_categories or from
\* list_available_categories when no category was loaded.
StartSweep ==
    /\ vpc = "idle"
    /\ sweeps < MaxSweeps
    /\ sweeps' = sweeps + 1
    /\ vpc' = "open_driver"
    /\ verified_categories' = <<>>
    /\ cache_at_start' = cache_file
    /\ UNCHANGED <<cache_file, entry_index, category_page, outcomes, category_name,
                   category_url, sweep_driver_open,
                   notCategoryVars>>

\* with get_chrome_driver() as driver: the browser starts, or the set-up
\* raises and the exception leaves the function.
OpenSweepDriver ==
    /\ vpc = "open_driver"
    /\ \/ /\ vpc' = "visit"
          /\ entry_index' = 1
          /\ sweep_driver_open' = TRUE
       \/ /\ vpc' = "raised"
          /\ UNCHANGED <<entry_index, sweep_driver_open>>
    /\ UNCHANGED <<cache_file, verified_categories, category_page, sweeps, outcomes,
                   category_name, category_url, cache_at_start, notCategoryVars>>

\* A mutation of the except clause: the loop is left.
StopAfterException(index) == Len(category_mappings) + 1

\* except Exception: ... continue
ContinueAfterException(index) == index + 1

\* One iteration of "for name, info in category_mappings.items()": the page
\* loads and is classified, or a driver call raises and the except clause
\* continues with the next entry.
VisitCategory ==
    /\ vpc = "visit"
    /\ entry_index <= Len(category_mappings)
    /\ LET info == category_mappings[entry_index] IN
       \/ \E loaded \in LoadedPages :
             /\ category_page' = loaded
             /\ IF is_valid(Lower(loaded.title), loaded.product_count)
                THEN /\ verified_categories' =
                          DictSet(verified_categories, Lower(info.name),
                                  VerifiedEntry(info, loaded.product_count,
                                                sweeps))
                     /\ outcomes' = Append(outcomes,
                                           [name |-> info.name,
                                            result |-> "verified"])
                ELSE /\ outcomes' = Append(outcomes,
                                           [name |-> info.name,
                                            result |-> "invalid"])
                     /\ UNCHANGED verified_categories
             /\ entry_index' = entry_index + 1
       \/ /\ category_page' = NoPage
          /\ outcomes' = Append(outcomes, [name |-> info.name,
                                           result |-> "raised"])
          /\ UNCHANGED verified_categories
          /\ entry_index' = ContinueAfterException(entry_index)
    /\ UNCHANGED <<cache_file, vpc, sweeps, category_name, category_url,
                   cache_at_start, sweep_driver_open,
                   notCategoryVars>>

\* The loop is over and the with block is left: driver.quit() returns, or
\* raises and the exception leaves the function before the file is written.
CloseSweepDriver ==
    /\ vpc = "visit"
    /\ entry_index > Len(category_mappings)
    /\ vpc' \in {"save", "raised"}
    /\ sweep_driver_open' = driver_quit(sweep_driver_open)
    /\ category_page' = NoPage
    /\ UNCHANGED <<cache_file, entry_index, verified_categories, sweeps,
                   outcomes, category_name, category_url, cache_at_start, notCategoryVars>>

\* The file is written inside try/except: open fails and the file is as it
\* was, or json.dump fails after open truncated the file, or the document
\* is written.  A failure is logged and the function returns all the same.
SaveCategories ==
    /\ vpc = "save"
    /\ \/ cache_file' = SaveData(cache_file, verified_categories, sweeps)
       \/ cache_file' = UnreadableFile
       \/ UNCHANGED cache_file
    /\ vpc' = "done"
    /\ UNCHANGED <<entry_index, verified_categories, category_page, sweeps, outcomes,
                   category_name, category_url, cache_at_start, sweep_driver_open,
                   notCategoryVars>>

\* The caller has the returned dictionary, or the exception.
SweepReturn ==
    /\ vpc \in {"done", "raised"}
    /\ vpc' = "idle"
    /\ entry_index' = 0
    /\ verified_categories' = <<>>
    /\ outcomes' = <<>>
    /\ cache_at_start' = MissingFile
    /\ UNCHANGED <<cache_file, category_page, sweeps, category_name, category_url,
                   sweep_driver_open,
                   notCategoryVars>>

\* The steps extract_and_verify_categories takes by itself once called.
SweepStep ==
    \/ OpenSweepDriver
    \/ VisitCategory
    \/ CloseSweepDriver
    \/ SaveCategories
    \/ SweepReturn

\* The names get_category_url is called with.
QueryAlphabet == {"o", "i", "R", " "}

RECURSIVE QueryTexts(_)
QueryTexts(n) ==
    IF n = 0 THEN {<<>>}
    ELSE QueryTexts(n - 1) \cup
         {Append(s, c) : s \in QueryTexts(n - 1), c \in QueryAlphabet}

SampleQueries == { <<"R", "i", "c", "e">>, <<"r", "i", "c", "e">>,
                   <<"R", "I", "C", "E">>, <<"F", "o", "o", "d">>,
                   <<"R", "e", "d", " ", "R", "i", "c", "e">>,
                   <<"r", "e", "d", " ", "r", "i", "c", "e">>,
                   <<"Z", "z", " ", "z", " ", "z">>,
                   <<"z", "Z", " ", "z", " ", "z">> }

Queries == QueryTexts(MaxQueryLen) \cup SampleQueries

\* A call of get_category_url.
GetCategoryUrl(name) ==
    /\ vpc = "idle"
    /\ category_name' = name
    /\ category_url' = get_category_url(cache_file, name)
    /\ vpc' = "resolved"
    /\ UNCHANGED <<cache_file, entry_index, verified_categories, category_page, sweeps,
                   outcomes, cache_at_start, sweep_driver_open,
                   notCategoryVars>>

\* The caller has the URL.
GetCategoryUrlReturn ==
    /\ vpc = "resolved"
    /\ vpc' = "idle"
    /\ category_name' = <<>>
    /\ category_url' = <<>>
    /\ UNCHANGED <<cache_file, entry_index, verified_categories, category_page, sweeps,
                   outcomes, cache_at_start, sweep_driver_open,
                   notCategoryVars>>

NextCategories ==
    \/ StartSweep
    \/ SweepStep
    \/ \E name \in Queries : GetCategoryUrl(name)
    \/ GetCategoryUrlReturn

-----------------------------------------------------------------------------
(* view_scraped_data *)

\* The characters of the category strings of the model.
CategoryChars(c) ==
    CASE c = "rice" -> <<"r", "i", "c", "e">>
      [] c = "dal" -> <<"d", "a", "l">>

\* text LIKE pattern, as SQLite evaluates it: % matches any run of
\* characters, _ any one character, and ASCII letters match in either case.
RECURSIVE Like(_, _)
Like(pattern, text) ==
    IF pattern = <<>> THEN text = <<>>
    ELSE IF Head(pattern) = "%"
    THEN \/ Like(Tail(pattern), text)
         \/ text # <<>> /\ Like(pattern, Tail(text))
    ELSE /\ text # <<>>
         /\ \/ Head(pattern) = "_"
            \/ LowerChar(Head(pattern)) = LowerChar(Head(text))
         /\ Like(Tail(pattern), Tail(text))

\* A mutation of the WHERE clause: every row is selected.
MatchesAnything(row, filter) == TRUE

\* WHERE category LIKE ?, with the parameter f"%{category}%"; without a
\* filter (None or the empty string) the statement has no WHERE clause.
MatchesFilter(row, filter) ==
    filter \in {NULL, <<>>}
        \/ Like(<<"%">> \o filter \o <<"%">>, CategoryChars(row.category))

\* scraped_at is datetime.now() of the INSERT: the invocation, then the
\* position in its batch.
Later(a, b) == a[1] > b[1] \/ (a[1] = b[1] /\ a[2] > b[2])

\* ORDER BY scraped_at DESC
RECURSIVE NewestFirst(_)
NewestFirst(rows) ==
    IF rows = <<>> THEN <<>>
    ELSE LET newest == CHOOSE i \in 1..Len(rows) :
                           \A j \in 1..Len(rows) :
                               ~Later(rows[j].scraped_at, rows[i].scraped_at)
             rest == [j \in 1..(Len(rows) - 1) |->
                          IF j < newest THEN rows[j] ELSE rows[j + 1]]
         IN  <<rows[newest]>> \o NewestFirst(rest)

\* LIMIT n, for n >= 0
Limit(rows, n) == SubSeq(rows, 1, IF n < Len(rows) THEN n ELSE Len(rows))

\* SELECT name, price, quantity, category, scraped_at
Selected(row) ==
    [name |-> row.name, price |-> row.price, quantity |-> row.quantity,
     category |-> row.category, scraped_at |-> row.scraped_at]

\* cursor.fetchall() of the statement of view_scraped_data.
FetchAll(rows, filter, n) ==
    LET Matching(row) == MatchesFilter(row, filter)
        ordered == Limit(NewestFirst(SelectSeq(rows, Matching)), n)
    IN  [i \in 1..Len(ordered) |-> Selected(ordered[i])]

\* The arguments view_scraped_data is called with.
ViewFilters == { NULL, <<"r", "i", "c", "e">>, <<"R", "I", "C", "E">>,
                 <<"r", "i", "c">>, <<"%">> }

\* One row, and the default of limit.
ViewLimits == {1, 10}

\* A call of view_scraped_data: the connection is opened, or
\* sqlite3.connect raises and the except clause returns the error message.
ViewScrapedData(filter, n) ==
    /\ pc = "idle"
    /\ view_category' = filter
    /\ view_limit' = n
    /\ \/ /\ conn' = Connect
          /\ pc' = "view_query"
          /\ UNCHANGED view_result
       \/ /\ view_result' = ErrorViewing
          /\ pc' = "viewed"
          /\ UNCHANGED conn
    /\ UNCHANGED <<storeVars, localVars, historyVars, driver_open, ret,
                   notScrapeVars>>

\* The SELECT statement and fetchall: the statement fails (the products
\* table does not exist) and the except clause returns the error message,
\* or the rows are fetched; the with block is left and the connection closed.
ViewQuery ==
    /\ pc = "view_query"
    /\ conn' = conn_close(conn)
    /\ \/ view_result' = ErrorViewing
       \/ /\ schema
          /\ view_result' =
                IF FetchAll(conn.products, view_category, view_limit) = <<>>
                THEN NoProductsFor
                ELSE Listing(FetchAll(conn.products, view_category, view_limit))
    /\ pc' = "viewed"
    /\ UNCHANGED <<storeVars, localVars, historyVars, driver_open, ret,
                   view_category, view_limit, notScrapeVars>>

\* The caller has the string.
ViewReturn ==
    /\ pc = "viewed"
    /\ pc' = "idle"
    /\ view_category' = NULL
    /\ view_limit' = 0
    /\ view_result' = NoView
    /\ UNCHANGED <<storeVars, localVars, historyVars, conn, driver_open, ret,
                   notScrapeVars>>

\* The steps of scrape_product_data and the calls of view_scraped_data.
Next ==
    \/ \E c \in Categories : Scrape(c)
    \/ InitDatabaseConnect
    \/ CreateTables
    \/ OpenDriver
    \/ LoadPage
    \/ ScrollPage
    \/ ExtractProducts
    \/ SkipSave
    \/ SaveConnect
    \/ DeleteExisting
    \/ InsertProduct
    \/ CommitProducts
    \/ LogSuccess
    \/ CommitLog
    \/ HandleException
    \/ LogError
    \/ Return
    \/ \E filter \in ViewFilters, n \in ViewLimits : ViewScrapedData(filter, n)
    \/ ViewQuery
    \/ ViewReturn

-----------------------------------------------------------------------------
(* The tool operations, call_function and run_ai_agent *)

\* The strings the tool operations return, as their leading symbol and the
\* fixed part of their text.
Raises == <<"raise">>
ScrapedSummary == <<"CHECK MARK", "Successfully scraped">>
ScrapeNoProducts == <<"CROSS MARK", "No products found for category">>
ScrapeError == <<"CROSS MARK", "Error scraping">>
CategoryListing == <<"CLIPBOARD", "Available Categories">>
NoCategoriesFound == <<"CROSS MARK", "No categories found.">>
ErrorRetrieving == <<"CROSS MARK", "Error retrieving categories">>
RefreshedSummary == <<"CHECK MARK", "Successfully refreshed">>
FailedToRefresh == <<"CROSS MARK", "Failed to refresh categories">>
ErrorRefreshing == <<"CROSS MARK", "Error refreshing categories">>
ProductListing == <<"PACKAGE", "Products">>
ViewNoProducts == <<"CROSS MARK", "No products found">>
ViewError == <<"CROSS MARK", "Error viewing data">>

ToolNames == {"scrape_product_data", "list_available_categories",
              "refresh_categories", "view_scraped_data"}

\* What the body of a tool operation does inside its try block, for the
\* outcomes of the browser, the cache file and the store: it returns one of
\* its strings or a statement raises.
BodyOutcomes(name) ==
    CASE name = "scrape_product_data" ->
             {ScrapedSummary, ScrapeNoProducts, Raises}
      [] name = "list_available_categories" ->
             {CategoryListing, NoCategoriesFound, Raises}
      [] name = "refresh_categories" ->
             {RefreshedSummary, FailedToRefresh, Raises}
      [] name = "view_scraped_data" ->
             {ProductListing, ViewNoProducts, Raises}

\* The string the except clause of a tool operation returns.
ExceptString(name) ==
    CASE name = "scrape_product_data" -> ScrapeError
      [] name = "list_available_categories" -> ErrorRetrieving
      [] name = "refresh_categories" -> ErrorRefreshing
      [] name = "view_scraped_data" -> ViewError

\* try: ... except Exception as e: return f"... {str(e)}"
TryExcept(name, outcome) ==
    IF outcome = Raises THEN ExceptString(name) ELSE outcome

\* call_function: the tool of that name is called; any other name raises
\* ValueError.
call_function(name) ==
    IF name \in ToolNames
    THEN {TryExcept(name, outcome) : outcome \in BodyOutcomes(name)}
    ELSE {Raises}

\* "CROSS MARK" in result
HasCross(result) == \E i \in 1..Len(result) : result[i] = "CROSS MARK"

\* A mutation of the status: one failure string makes the status "error".
StatusErrorOnAny(strings) ==
    IF \E i \in 1..Len(strings) : HasCross(strings[i])
    THEN "error"
    ELSE "success"

\* status = "success"; if any(...): status = "error" if all(...) else
\* "partial"
Status(strings) ==
    IF \E i \in 1..Len(strings) : HasCross(strings[i])
    THEN IF \A i \in 1..Len(strings) : HasCross(strings[i])
         THEN "error"
         ELSE "partial"
    ELSE "success"

NoResponse == [status |-> "none", summary |-> <<>>]

\* The names the language model may ask for: the tools and a name that is
\* none of them.
RequestedNames == ToolNames \cup {"export_data"}

RECURSIVE ToolCalls(_)
ToolCalls(n) ==
    IF n = 0 THEN {<<>>}
    ELSE ToolCalls(n - 1) \cup
         {Append(calls, name) : calls \in ToolCalls(n - 1),
                                name \in RequestedNames}

InitAgent ==
    /\ apc = "idle"
    /\ tool_calls = <<>>
    /\ call_index = 0
    /\ results = <<>>
    /\ agent_raised = FALSE
    /\ response = NoResponse

\* run_ai_agent is called: the messages are built.
RunAgent ==
    /\ apc = "idle"
    /\ response = NoResponse
    /\ apc' = "completion"
    /\ UNCHANGED <<tool_calls, call_index, results, agent_raised, response,
                   notAgentVars>>

\* client.chat.completions.create returns a message, with or without tool
\* calls, or raises.
Completion ==
    /\ apc = "completion"
    /\ \/ \E calls \in ToolCalls(MaxToolCalls) :
             /\ tool_calls' = calls
             /\ call_index' = 1
             /\ apc' = IF calls = <<>> THEN "no_tools" ELSE "dispatch"
             /\ UNCHANGED agent_raised
       \/ /\ agent_raised' = TRUE
          /\ apc' = "except"
          /\ UNCHANGED <<tool_calls, call_index>>
    /\ UNCHANGED <<results, response, notAgentVars>>

\* One iteration of "for tool_call in assistant_message.tool_calls":
\* json.loads of the arguments raises, or call_function raises, or the
\* result is appended.
Dispatch ==
    /\ apc = "dispatch"
    /\ call_index <= Len(tool_calls)
    /\ \/ \E result \in call_function(tool_calls[call_index]) :
             IF result = Raises
             THEN /\ agent_raised' = TRUE
                  /\ apc' = "except"
                  /\ UNCHANGED <<results, call_index>>
             ELSE /\ results' = Append(results, result)
                  /\ call_index' = call_index + 1
                  /\ UNCHANGED <<agent_raised, apc>>
       \/ /\ agent_raised' = TRUE
          /\ apc' = "except"
          /\ UNCHANGED <<results, call_index>>
    /\ UNCHANGED <<tool_calls, response, notAgentVars>>

\* The loop is over: the results are joined and the status is determined.
Respond ==
    /\ apc = "dispatch"
    /\ call_index > Len(tool_calls)
    /\ response' = [status |-> Status(results), summary |-> results]
    /\ apc' = "responded"
    /\ UNCHANGED <<tool_calls, call_index, results, agent_raised,
                   notAgentVars>>

\* The message has no tool call: its content is the summary.
RespondWithoutTools ==
    /\ apc = "no_tools"
    /\ response' = [status |-> "success", summary |-> <<>>]
    /\ apc' = "responded"
    /\ UNCHANGED <<tool_calls, call_index, results, agent_raised,
                   notAgentVars>>

\* except Exception as e: the response carries the error.
AgentExcept ==
    /\ apc = "except"
    /\ response' = [status |-> "error",
                    summary |-> <<<<"CROSS MARK", "Error in AI agent">>>>]
    /\ apc' = "responded"
    /\ UNCHANGED <<tool_calls, call_index, results, agent_raised,
                   notAgentVars>>

NextAgent ==
    \/ RunAgent
    \/ Completion
    \/ Dispatch
    \/ Respond
    \/ RespondWithoutTools
    \/ AgentExcept

-----------------------------------------------------------------------------
(* Specifications *)

Init ==
    InitScrape /\ InitPriceIdle /\ InitScrollIdle /\ InitCategories /\ InitAgent

\* Invocations of scrape_product_data, one after the other, on a store that
\* starts without tables.
Spec == Init /\ [][Next]_vars

InitPriceSpec ==
    InitPrice /\ InitScrollIdle /\ InitScrape /\ InitCategories /\ InitAgent

\* One call of extract_price_info on every generated product element.
SpecPrice == InitPriceSpec /\ [][NextPrice]_vars

InitScrollSpec ==
    InitScroll /\ InitPriceIdle /\ InitScrape /\ InitCategories /\ InitAgent

\* One call of scroll_to_load_products.  The interpreter always takes the
\* next step of the function: sleep returns and a driver call returns or
\* raises.
SpecScroll == InitScrollSpec /\ [][NextScroll]_vars /\ WF_vars(NextScroll)

InitCategoriesSpec ==
    InitCategories /\ InitPriceIdle /\ InitScrollIdle /\ InitScrape /\ InitAgent

\* Sweeps of extract_and_verify_categories and calls of get_category_url,
\* one after the other, starting without a cache file.  Once called, the
\* sweep takes its next step: a driver call returns or raises within its
\* timeout.
SpecCategories ==
    InitCategoriesSpec /\ [][NextCategories]_vars /\ WF_vars(SweepStep)

InitAgentSpec ==
    InitAgent /\ InitPriceIdle /\ InitScrollIdle /\ InitScrape /\ InitCategories

\* One call of run_ai_agent for every message the language model may
\* answer with and every outcome of the tools it asks for.  The function
\* takes its next step: the model call and each tool return or raise.
SpecAgent == InitAgentSpec /\ [][NextAgent]_vars /\ WF_vars(NextAgent)

\* The steps of every operation that opens a browser session or a store
\* connection.  The store operations and the sweep share no variable, so
\* each is explored from the initial state of the other.
NextResources ==
    \/ sweeps = 0 /\ Next
    \/ runs = 0 /\ pc = "idle" /\ StartSweep
    \/ SweepStep

\* scrape_product_data, view_scraped_data and extract_and_verify_categories
\* with the sessions and the connections they open.
SpecResources == Init /\ [][NextResources]_vars

-----------------------------------------------------------------------------
(* Properties *)

\* The columns of a products row that come from a product_data record.
ProductOf(row) ==
    [name |-> row.name,
     price |-> row.price,
     original_price |-> row.original_price,
     discount_percentage |-> row.discount_percentage,
     quantity |-> row.quantity,
     category |-> row.category,
     product_url |-> row.product_url,
     image_url |-> row.image_url]

\* The rows of a category, in table order, as product_data records.
StoredProducts(rows, c) ==
    LET InCategory(row) == row.category = c
        selected == SelectSeq(rows, InCategory)
    IN  [i \in 1..Len(selected) |-> ProductOf(selected[i])]

\* The invocation has returned the success summary.
ReturnedSuccess == pc = "done" /\ ret.kind = "success"

\* C1, as claimed: when scrape_product_data(C) has reached the extraction
\* and returns its success summary, the stored rows of category C are exactly
\* the items extracted in that call.
C1_SnapshotReplaced ==
    (ReturnedSuccess /\ extracted) =>
        StoredProducts(products, category) = products_data

\* C2, as claimed: an invocation during which no access to the store failed
\* has appended exactly one row to scraping_logs when it returns.
C2_OneLogRowPerInvocation ==
    (pc = "done" /\ ~store_fault) =>
        Len(scraping_logs) = logs_at_start + 1

\* C3: when an invocation for category C extracts the item list that the
\* invocation before it, also for C, extracted and did not fail to commit,
\* the rows of C after it have the same number and the same field values as
\* the rows of C before it, that is, after the first of the two runs.
C3_ReplacementIdempotent ==
    (/\ pc = "done"
     /\ extracted
     /\ prev_run.persisted
     /\ prev_run.category = category
     /\ prev_run.products_data = products_data) =>
        StoredProducts(products, category)
            = StoredProducts(products_at_start, category)

\* C3: a second run of the same category has extracted the same non-empty
\* list, replaced the rows and returned the success summary.
C3_Witness ==
    /\ ReturnedSuccess
    /\ prev_run.persisted
    /\ prev_run.category = category
    /\ prev_run.products_data = products_data
    /\ products_data # <<>>
    /\ StoredProducts(products, category) = products_data

\* Two items of the extracted batch have the same name.
BatchHasDuplicateName ==
    \E i, j \in 1..Len(products_data) :
        i < j /\ products_data[i].name = products_data[j].name

\* The last item of the batch with the name of item i.
LastWithName(i) ==
    LET same == {j \in 1..Len(products_data) :
                    products_data[j].name = products_data[i].name}
    IN  products_data[CHOOSE j \in same : \A k \in same : k <= j]

\* The stored products of the category with the given name.
StoredWithName(name) ==
    LET Named(product) == product.name = name
    IN  SelectSeq(StoredProducts(products, category), Named)

\* C4, as claimed: after a successful scrape whose batch holds two items of
\* one name, the store holds for each name of the batch exactly one row of
\* the category, with the fields of the last item of that name.
C4_DuplicateNameOverwritten ==
    (ReturnedSuccess /\ BatchHasDuplicateName) =>
        \A i \in 1..Len(products_data) :
            StoredWithName(products_data[i].name) = <<LastWithName(i)>>

\* C5, as claimed: when no product element appears within the wait, the
\* function returns the "no products found" message and has written one
\* scraping_logs row for the category, with products_found = 0 and an error
\* or not-found status.
C5_TimeoutLogged ==
    (pc = "done" /\ timed_out) =>
        /\ ret = NoProductsFound
        /\ Len(scraping_logs) = logs_at_start + 1
        /\ scraping_logs[Len(scraping_logs)].category = category
        /\ scraping_logs[Len(scraping_logs)].products_found = 0
        /\ scraping_logs[Len(scraping_logs)].status \in {"error", "not_found"}

\* The products were committed and the insert into scraping_logs that
\* follows failed.
LogWriteFailedAfterCommit == pc = "done" /\ committed /\ log_failed

\* C6, as claimed: when the products of the scrape are committed and the
\* insert into scraping_logs fails, the success summary is still returned.
C6_LogFailureNotMasked ==
    LogWriteFailedAfterCommit => ret.kind = "success"

\* C7: when the products of the scrape are committed and the insert into
\* scraping_logs fails, the rows of the category in the store are the newly
\* inserted ones when the function returns.
C7_LogFailureKeepsProducts ==
    LogWriteFailedAfterCommit =>
        StoredProducts(products, category) = products_data

\* C7: the log insert has failed after a commit that replaced other rows of
\* the category.
C7_Witness ==
    /\ LogWriteFailedAfterCommit
    /\ StoredProducts(products_at_start, category) # <<>>
    /\ StoredProducts(products_at_start, category) # products_data
    /\ StoredProducts(products, category) = products_data

\* C8: scroll_to_load_products never performs more than max_scrolls scroll
\* actions (none when max_scrolls = 0), whatever heights the page reports,
\* and it ends.
C8_ScrollBoundedAndTerminates ==
    /\ [](scroll_actions <= max_scrolls)
    /\ <>(scroll_pc \in {"done", "raised"})

\* C8: the loop has ended after MAX_SCROLLS rounds on a page whose height
\* changed in the last round.
C8_Witness ==
    /\ scroll_pc = "done"
    /\ max_scrolls = MAX_SCROLLS
    /\ scroll_actions = MAX_SCROLLS
    /\ no_change_count = 0

\* The price texts of the element that extract_price_info reads.
DiscountedText == safe_text(product_element.discountedPrice)
OriginalText == safe_text(product_element.originalPrice)

\* The texts coerced as the function coerces them.
DiscountedValue == Float(StripNonNumeric(DiscountedText))
OriginalValue == Float(StripNonNumeric(OriginalText))

\* t tenths of a percent is (original - discounted) / original * 100 rounded
\* to one decimal: it is within half a tenth of it.  orig and disc are the
\* two values in a common unit.
IsRoundedDiscount(t, orig, disc) ==
    2 * Abs(t * orig - 1000 * (orig - disc)) <= orig

\* C9: when both price texts coerce to numbers and the original is positive,
\* discount_percentage is (original - discounted) / original * 100 rounded to
\* one decimal, followed by "%" (100 and 75 give "25.0%"); when the original
\* is 0 or a coercion fails it is empty.
C9_DiscountPercentage ==
    price_pc = "return" =>
        /\ IF /\ DiscountedText # <<>>
              /\ OriginalText # <<>>
              /\ DiscountedValue.ok
              /\ OriginalValue.ok
              /\ OriginalValue.num > 0
           THEN LET scale == Max(OriginalValue.scale, DiscountedValue.scale)
                    orig == Scaled(OriginalValue, scale)
                    disc == Scaled(DiscountedValue, scale)
                    near == (1000 * (orig - disc)) \div orig
                IN  \E t \in (near - 1)..(near + 2) :
                       /\ IsRoundedDiscount(t, orig, disc)
                       /\ price_info.discount_percentage
                             = FormatPercent(t, disc > orig)
           ELSE price_info.discount_percentage = <<>>
        /\ (DiscountedText = <<"7", "5">> /\ OriginalText = <<"1", "0", "0">>) =>
               price_info.discount_percentage = <<"2", "5", ".", "0", "%">>

\* C9: the discount of 75 on 100 has been computed.
C9_Witness ==
    /\ price_pc = "return"
    /\ DiscountedText = <<"7", "5">>
    /\ OriginalText = <<"1", "0", "0">>
    /\ price_info.discount_percentage = <<"2", "5", ".", "0", "%">>

\* The product elements of the page that have a non-empty name.
NamedElements ==
    {i \in 1..Len(product_elements) :
        product_elements[i].name # NULL
            /\ Strip(product_elements[i].name) # <<>>}

\* C10: an item without a name is in no extracted list, no stored row and
\* not in the saved count: every extracted item and every products row has
\* a non-empty name, no more items are extracted than the page has named
\* elements, and every success row of scraping_logs has
\* products_saved <= products_found, the row of this invocation with the
\* number of extracted items as products_saved.
C10_NamelessExcluded ==
    /\ \A i \in 1..Len(products_data) :
          products_data[i].name \notin {<<>>, NULL}
    /\ \A i \in 1..Len(products) : products[i].name \notin {<<>>, NULL}
    /\ \A i \in 1..Len(conn.products) :
          conn.products[i].name \notin {<<>>, NULL}
    /\ extracted => Len(products_data) <= Cardinality(NamedElements)
    /\ \A i \in 1..Len(scraping_logs) :
          scraping_logs[i].status = "success" =>
              scraping_logs[i].products_saved <= scraping_logs[i].products_found
    /\ (ReturnedSuccess /\ products_data # <<>>) =>
          /\ scraping_logs[Len(scraping_logs)].products_saved
                = Len(products_data)
          /\ scraping_logs[Len(scraping_logs)].products_found
                = Len(product_elements)
          /\ Len(StoredProducts(products, category)) = Len(products_data)

\* C10: a page with elements without a name has been scraped and saved.
C10_Witness ==
    /\ ReturnedSuccess
    /\ products_data # <<>>
    /\ Cardinality(NamedElements) < Len(product_elements)
    /\ scraping_logs[Len(scraping_logs)].products_saved
          < scraping_logs[Len(scraping_logs)].products_found

-----------------------------------------------------------------------------
(* Properties of the category cache *)

\* The entries of the cache file, none when the file is absent or is not
\* JSON.
CachedEntries ==
    IF cache_file.state = "json"
    THEN {cache_file.categories[i].value :
              i \in 1..Len(cache_file.categories)}
    ELSE {}

\* Two texts are equal up to the case of their letters.
SameIgnoringCase(a, b) ==
    /\ Len(a) = Len(b)
    /\ \A i \in 1..Len(a) : LowerChar(a[i]) = LowerChar(b[i])

\* a occurs in b, up to the case of the letters.
OccursIgnoringCase(a, b) ==
    \E i \in 0..(Len(b) - Len(a)) :
        SameIgnoringCase(a, SubSeq(b, i + 1, i + Len(a)))

\* The fallback path of a query: its letters in lower case, a hyphen for
\* each space.
IsSlugOf(path, name) ==
    /\ Len(path) = Len(name)
    /\ \A i \in 1..Len(name) :
          path[i] = IF name[i] = " " THEN "-" ELSE LowerChar(name[i])

C11_Resolved ==
    vpc = "resolved" =>
        /\ category_url # NULL
        /\ category_url # <<>>
        /\ Head(category_url) = "https://chaldal.com/"
        /\ \A entry \in CachedEntries :
              SameIgnoringCase(entry.name, category_name) =>
                  Tail(category_url) = entry.url
        /\ (\A entry \in CachedEntries :
               /\ ~OccursIgnoringCase(entry.name, category_name)
               /\ ~OccursIgnoringCase(category_name, entry.name))
              => IsSlugOf(Tail(category_url), category_name)

\* C11: get_category_url returns a URL of the site for every query and
\* every state of the cache file, never None: the cached path of the entry
\* whose name equals the query up to case, and the fallback URL (the query
\* in lower case, spaces turned into hyphens) when the file is absent,
\* unreadable or empty or no cached name is equal to, contains or is
\* contained in the query; and the call leaves the cache file as it was.
C11_CategoryUrlTotal ==
    /\ []C11_Resolved
    /\ [][vpc' = "resolved" => cache_file' = cache_file]_vars

\* C11: the query "RICE" has been resolved from a cache holding "Rice".
C11_Witness ==
    /\ vpc = "resolved"
    /\ category_name = <<"R", "I", "C", "E">>
    /\ \E entry \in CachedEntries : entry.name = <<"R", "i", "c", "e">>
    /\ category_url = SiteUrl(<<"r", "i", "c", "e", "s">>)

-----------------------------------------------------------------------------
(* Properties of view_scraped_data *)

\* The stored rows whose category is exactly the filter.
RowsOfCategory ==
    {i \in 1..Len(products) :
        CategoryChars(products[i].category) = view_category}

\* The stored rows whose category contains the filter, read as a LIKE
\* pattern, up to the case of the letters.
RowsLikeFilter ==
    {i \in 1..Len(products) :
        Like(<<"%">> \o view_category \o <<"%">>,
             CategoryChars(products[i].category))}

Returned == view_result.rows

\* The call was made with a non-empty filter and did not end in the except
\* clause.
FilteredView ==
    /\ pc = "viewed"
    /\ view_category \notin {NULL, <<>>}
    /\ view_limit >= 1
    /\ view_result.kind # "error"

MostRecentFirst ==
    \A i \in 1..Len(Returned), j \in 1..Len(Returned) :
        i < j => ~Later(Returned[j].scraped_at, Returned[i].scraped_at)

\* A row that was left out is not more recent than a returned one.
NoNewerLeftOut(candidates) ==
    \A i \in candidates :
        (\A k \in 1..Len(Returned) : Returned[k] # Selected(products[i]))
            => \A k \in 1..Len(Returned) :
                   ~Later(products[i].scraped_at, Returned[k].scraped_at)

Smaller(a, b) == IF a < b THEN a ELSE b

\* C12, as claimed: view_scraped_data(c, n) with a non-empty c and n >= 1
\* returns min(n, number of stored rows of category c) rows, each of
\* category c, most recent first, and no row of another category.
C12_OnlyRowsOfCategory ==
    FilteredView =>
        /\ Len(Returned) = Smaller(view_limit, Cardinality(RowsOfCategory))
        /\ \A k \in 1..Len(Returned) :
              CategoryChars(Returned[k].category) = view_category
        /\ MostRecentFirst

\* C12, amended: view_scraped_data(c, n) with a non-empty c and n >= 1
\* returns min(n, number of stored rows whose category matches the pattern
\* %c% of LIKE) rows, each with such a category and each a stored row, most
\* recent first, the most recent of the matching rows; rows whose category
\* does not match are never returned.
C12_RowsLikeFilter ==
    FilteredView =>
        /\ Len(Returned) = Smaller(view_limit, Cardinality(RowsLikeFilter))
        /\ \A k \in 1..Len(Returned) :
              \E i \in RowsLikeFilter : Returned[k] = Selected(products[i])
        /\ \A k \in 1..Len(Returned), l \in 1..Len(Returned) :
              k # l => Returned[k] # Returned[l]
        /\ MostRecentFirst
        /\ NoNewerLeftOut(RowsLikeFilter)
        /\ (view_result.kind = "no_products") = (RowsLikeFilter = {})

\* C12: the filter "rice" with limit 1 returned the most recent of several
\* rows of "rice" while rows of "dal" are stored.
C12_Witness ==
    /\ FilteredView
    /\ view_category = <<"r", "i", "c", "e">>
    /\ view_limit = 1
    /\ Len(Returned) = 1
    /\ Cardinality(RowsOfCategory) > 1
    /\ \E i \in 1..Len(products) : products[i].category = "dal"

-----------------------------------------------------------------------------
(* Properties of the except clause of scrape_product_data *)

\* A step of the current invocation has raised.
Raised == exc # ""

\* C13: an invocation of scrape_product_data in which a step raised (the
\* schema initialisation, the browser, the extraction, a store write) ends
\* in the except clause: it returns the error string, and when the store
\* accepted the write of the except clause, scraping_logs has exactly one
\* row more than at the call, with the category, status "error", 0 products
\* found, 0 saved and the message of the exception.
C13_FailureCaughtAndLogged ==
    /\ pc = "except" => Raised
    /\ (pc = "done" /\ Raised) =>
          /\ ret = ErrorMessage
          /\ error_logged =>
                /\ Len(scraping_logs) = logs_at_start + 1
                /\ scraping_logs[Len(scraping_logs)] =
                      [category |-> category, products_found |-> 0,
                       products_saved |-> 0, status |-> "error",
                       error_message |-> exc]
    /\ (pc = "done" /\ ~Raised) => ret # ErrorMessage

\* C13: a store write raised after products were extracted, and the error
\* row was written.
C13_Witness ==
    /\ pc = "done"
    /\ Raised
    /\ error_logged
    /\ products_data # <<>>
    /\ ret = ErrorMessage

-----------------------------------------------------------------------------
(* Properties of extract_and_verify_categories *)

\* The visit that has just been made, when the page was loaded and
\* classified.
LastVisit == outcomes[Len(outcomes)]

Classified ==
    /\ vpc = "visit"
    /\ outcomes # <<>>
    /\ LastVisit.result # "raised"

\* The three marks of a valid page according to the specification.
ShowsSiteName ==
    OccursIgnoringCase(<<"c", "h", "a", "l", "d", "a", "l">>,
                       category_page.title)
ShowsProducts == category_page.product_count > 0
ShowsNavigation == category_page.breadcrumb

\* C14, as claimed: a candidate category whose page was loaded is put into
\* the output of the sweep exactly when the title of the page contains
\* 'chaldal', or the page has at least one product item, or it has category
\* or breadcrumb navigation markers; a page with none of the three is left
\* out.
C14_ValidExactlyByMarkers ==
    Classified =>
        (HasKey(verified_categories, Lower(LastVisit.name))
            <=> (ShowsSiteName \/ ShowsProducts \/ ShowsNavigation))

\* The outcomes of the visits that put an entry into the dictionary.
VerifiedOutcomes ==
    LET IsVerified(o) == o.result = "verified"
    IN  SelectSeq(outcomes, IsVerified)

\* The visits made so far are those of the first entries of the table, one
\* for each entry and in table order, and the dictionary holds the entries
\* of exactly the visits that verified, whatever the other visits did.
VisitedInTableOrder ==
    /\ Len(outcomes) <= Len(category_mappings)
    /\ \A i \in 1..Len(outcomes) :
          outcomes[i].name = category_mappings[i].name
    /\ vpc = "visit" => Len(outcomes) = entry_index - 1
    /\ Len(verified_categories) = Len(VerifiedOutcomes)
    /\ \A i \in 1..Len(verified_categories) :
          /\ verified_categories[i].value.name = VerifiedOutcomes[i].name
          /\ SameIgnoringCase(verified_categories[i].key,
                              VerifiedOutcomes[i].name)

\* The loop has been left: every entry of the table has been visited.
AllVisited ==
    vpc \in {"save", "done"} => Len(outcomes) = Len(category_mappings)

\* C15: in a sweep whose browser started, a visit that raises leaves out
\* that category only: the entries are visited once each in table order,
\* those before and after a failed visit included, the dictionary built
\* (and returned) holds exactly the entries whose visit verified, and the
\* sweep ends.
C15_VerificationIsolated ==
    /\ [](VisitedInTableOrder /\ AllVisited)
    /\ (vpc \in {"open_driver", "visit"}) ~> (vpc \in {"done", "raised"})

\* C15: a sweep has returned in which the first visit raised and a later
\* one verified.
C15_Witness ==
    /\ vpc = "done"
    /\ outcomes[1].result = "raised"
    /\ outcomes[Len(outcomes)].result = "verified"
    /\ Len(verified_categories) > 0

CandidateNames ==
    {category_mappings[i].name : i \in 1..Len(category_mappings)}

\* The dictionary of a state of the cache file, none when it is not JSON.
CategoryMap(file) == IF file.state = "json" THEN file.categories ELSE <<>>

\* The key is the name in lower case.
IsLowerOf(key, name) ==
    /\ Len(key) = Len(name)
    /\ \A i \in 1..Len(name) : key[i] = LowerChar(name[i])

\* The document of a cache file: entries keyed by their lowercased name,
\* each a candidate of the table, marked verified and stamped with the time
\* of the sweep that wrote the file, and counted by total_categories.
WellFormedCache(file) ==
    file.state = "json" =>
        /\ file.total_categories = Len(file.categories)
        /\ \A i \in 1..Len(file.categories) :
              /\ IsLowerOf(file.categories[i].key,
                           file.categories[i].value.name)
              /\ file.categories[i].value.name \in CandidateNames
              /\ file.categories[i].value.verified = TRUE
              /\ file.categories[i].value.verified_at = file.last_updated
        /\ \A i \in 1..Len(file.categories), j \in 1..Len(file.categories) :
              file.categories[i].key = file.categories[j].key => i = j

\* The sweep that is returning has written the file.
WrittenByThisSweep ==
    /\ vpc = "done"
    /\ cache_file.state = "json"
    /\ cache_file.last_updated = sweeps

C17_NoDanglingParent ==
    \A i \in 1..Len(CategoryMap(cache_file)) :
        LET entry == cache_file.categories[i].value
        IN  (entry.level > 0 /\ entry.parent # NULL) =>
                \E j \in 1..Len(cache_file.categories) :
                    cache_file.categories[j].value.name = entry.parent

-----------------------------------------------------------------------------
(* Properties of the tool operations and of run_ai_agent *)

FailureStrings ==
    {ScrapeNoProducts, ScrapeError, NoCategoriesFound, ErrorRetrieving,
     FailedToRefresh, ErrorRefreshing, ViewNoProducts, ViewError}

ToolStrings ==
    FailureStrings \cup
        {ScrapedSummary, CategoryListing, RefreshedSummary, ProductListing}

FailedCalls == {i \in 1..Len(results) : results[i] \in FailureStrings}

\* The status the response must have.
ExpectedStatus ==
    IF agent_raised THEN "error"
    ELSE IF results # <<>> /\ FailedCalls = 1..Len(results) THEN "error"
    ELSE IF FailedCalls # {} THEN "partial"
    ELSE "success"

ToolsReturnStrings ==
    /\ \A name \in ToolNames : call_function(name) \subseteq ToolStrings
    /\ \A i \in 1..Len(results) : results[i] \in ToolStrings
    /\ Len(results) <= Len(tool_calls)

ResponseHasStatus ==
    apc = "responded" =>
        /\ response # NoResponse
        /\ response.status = ExpectedStatus

\* C18: each of the four tool operations returns one of its strings for
\* every outcome of its body, an exception included, and never raises;
\* run_ai_agent always returns a response, whose status is "error" when the
\* model call or the dispatch raised (an unknown tool name included) or
\* every tool result is a failure string, "partial" when some but not all
\* results are failure strings, and "success" otherwise.
C18_ToolsAndAgentAlwaysAnswer ==
    /\ [](ToolsReturnStrings /\ ResponseHasStatus)
    /\ (apc = "completion") ~> (apc = "responded")

\* C18: a response with status "partial" has been returned for two tool
\* calls, one of which failed.
C18_Witness ==
    /\ apc = "responded"
    /\ response.status = "partial"
    /\ Len(results) = 2
    /\ results[1] \in FailureStrings
    /\ results[2] \notin FailureStrings

-----------------------------------------------------------------------------
(* Properties of the early stop of scroll_to_load_products *)

\* The last NoChangeLimit rounds all left the height unchanged.
Plateau ==
    /\ Len(recent_rounds) = NoChangeLimit
    /\ \A i \in 1..NoChangeLimit : recent_rounds[i]

\* The number of unchanged rounds at the end of the record.
RECURSIVE UnchangedAtEnd(_)
UnchangedAtEnd(rounds) ==
    IF rounds = <<>> \/ ~rounds[Len(rounds)] THEN 0
    ELSE 1 + UnchangedAtEnd(SubSeq(rounds, 1, Len(rounds) - 1))

EarlyStopOnlyOnPlateau ==
    /\ no_change_count = UnchangedAtEnd(recent_rounds)
    /\ (scroll_pc = "done" /\ scroll_count < max_scrolls) => Plateau
    /\ scroll_pc = "done" => (Plateau \/ scroll_count = max_scrolls)

\* C19: scroll_to_load_products returns before max_scrolls rounds only when
\* the last 3 rounds all left the page height unchanged, and no round is
\* made after such a round, so it stops at the first of them; the counter
\* is the number of unchanged rounds since the last change (0 after a round
\* that changed the height), so one or two unchanged rounds followed by a
\* change do not stop the loop.
C19_EarlyStopAtThirdUnchangedRound ==
    /\ []EarlyStopOnlyOnPlateau
    /\ [][Plateau => scroll_count' = scroll_count]_vars
    /\ [][(scroll_pc = "loop" /\ ~Plateau /\ scroll_count < max_scrolls)
             => scroll_pc' # "done"]_vars

\* C19: the loop stopped early after more rounds than the plateau is long:
\* a change of height had reset the counter before.
C19_Witness ==
    /\ scroll_pc = "done"
    /\ scroll_count < max_scrolls
    /\ scroll_count > NoChangeLimit + 1
    /\ Plateau

-----------------------------------------------------------------------------
(* Properties of the resolution order of get_category_url *)

CachedMap == CategoryMap(cache_file)

\* The cached name equals the query up to case.
ExactAt(i) == SameIgnoringCase(CachedMap[i].value.name, category_name)

\* The cached name contains the query or is contained in it, up to case.
RelatedAt(i) ==
    \/ OccursIgnoringCase(category_name, CachedMap[i].value.name)
    \/ OccursIgnoringCase(CachedMap[i].value.name, category_name)

ResolutionOrder ==
    vpc = "resolved" =>
        /\ \A i \in 1..Len(CachedMap) :
              ExactAt(i) => category_url = SiteUrl(CachedMap[i].value.url)
        /\ (\A i \in 1..Len(CachedMap) : ~ExactAt(i)) =>
              \A i \in 1..Len(CachedMap) :
                  (RelatedAt(i) /\ \A j \in 1..(i - 1) : ~RelatedAt(j))
                      => category_url = SiteUrl(CachedMap[i].value.url)
        /\ IF \E i \in 1..Len(CachedMap) : RelatedAt(i)
           THEN \E i \in 1..Len(CachedMap) :
                    category_url = SiteUrl(CachedMap[i].value.url)
           ELSE IsSlugOf(Tail(category_url), category_name)

\* Every query of the model that differs from the resolved one in letter
\* case only resolves to the same URL on the same cache file.
CaseInsensitive ==
    vpc = "resolved" =>
        \A other \in Queries :
            SameIgnoringCase(other, category_name) =>
                get_category_url(cache_file, other) = category_url

\* C20: get_category_url returns the cached path of the name that equals
\* the query up to case when there is one; otherwise that of the first
\* cached name, in the order of the cache file, that contains the query or
\* is contained in it up to case; the slug fallback only when no cached
\* name is related to the query in that way; and queries that differ in
\* letter case only resolve to the same URL.
C20_ResolutionOrder == ResolutionOrder /\ CaseInsensitive

\* C20: the query "i", contained in the cached names "cooking" and "rice",
\* has been resolved to the path of the first of them.
C20_Witness ==
    /\ vpc = "resolved"
    /\ category_name = <<"i">>
    /\ Cardinality({i \in 1..Len(CachedMap) : RelatedAt(i)}) = 2
    /\ category_url = SiteUrl(<<"c", "o", "o", "k", "i", "n", "g">>)

-----------------------------------------------------------------------------
(* Properties of the browser sessions and the store connections *)

\* scrape_product_data or view_scraped_data has returned, or none is called.
StoreOperationEnded == pc \in {"idle", "done", "viewed"}

\* init_database, called by scrape_product_data, has returned or raised.
InitDatabaseEnded == pc \in {"open_driver", "except"}

\* extract_and_verify_categories has returned or raised, or is not called.
SweepEnded == vpc \in {"idle", "done", "raised"}

\* C21: when scrape_product_data or view_scraped_data has returned (normally,
\* by the return on page timeout, or from the except clause), no browser
\* session and no store connection is open; when init_database has returned
\* or raised, its connection is closed; when an exception has reached the
\* except clause of scrape_product_data, the session and the connection of
\* the try block are closed; when a sweep has ended, its session is quit.
C21_ResourcesReleased ==
    /\ StoreOperationEnded => ~conn.open /\ ~driver_open
    /\ InitDatabaseEnded => ~conn.open
    /\ pc = "except" => ~conn.open /\ ~driver_open
    /\ SweepEnded => ~sweep_driver_open
    /\ vpc = "save" => ~sweep_driver_open

\* C21: a scrape has returned from its except clause after it had opened and
\* quit a browser session, lost its connection for the replacement to a
\* failure and written the error row on another connection.
C21_Witness ==
    /\ pc = "done"
    /\ extracted
    /\ exc = "sqlite3.Error"
    /\ error_logged
    /\ ~conn.open
    /\ ~driver_open

\* The positions of scrape_product_data inside the with block of
\* get_chrome_driver, and inside a with block of get_db_connection.
InBrowserBlock == pc \in {"load_page", "scroll", "extract"}

InConnectionBlock ==
    pc \in {"create_tables", "delete", "insert", "commit_products", "log",
            "commit_log", "log_error"}

\* The positions right before a session or a connection is opened.
BeforeOpening == pc \in {"init_database", "open_driver", "save", "except"}

\* C22: in every state of scrape_product_data a store connection and a
\* browser session are not open together; the session is open exactly inside
\* the one with block of get_chrome_driver and a connection exactly inside a
\* with block of get_db_connection, and where either is about to be opened
\* (the schema-init connection, the browser after it, the connection of the
\* replacement and the log after the browser, the connection of the error
\* row) none is open, so there is never more than one of each.
C22_NeverBothOpen ==
    /\ ~(conn.open /\ driver_open)
    /\ InBrowserBlock => driver_open /\ ~conn.open
    /\ InConnectionBlock => conn.open /\ ~driver_open
    /\ BeforeOpening => ~conn.open /\ ~driver_open

\* C22: the connection of the replacement is open, after the schema-init
\* connection was closed and the browser was opened and quit.
C22_Witness ==
    /\ pc = "insert"
    /\ schema
    /\ extracted
    /\ conn.open
    /\ ~driver_open

-----------------------------------------------------------------------------
(* Properties of the transaction of the replacement *)

\* The stored rows of category c.
StoredRows(rows, c) ==
    LET OfCategory(row) == row.category = c
    IN  SelectSeq(rows, OfCategory)

\* The DELETE or some INSERT has run and the batch is not committed.
InTransaction == pc \in {"insert", "commit_products"}

\* The replacement of the current invocation has failed before its commit.
FailedBeforeCommit ==
    /\ pc \in {"except", "log_error", "done"}
    /\ extracted
    /\ exc = "sqlite3.Error"
    /\ ~committed

\* C23: while the DELETE and the inserts of a scrape of category C are not
\* committed the store holds the rows it held at the call, and when the
\* replacement fails before its commit (at the DELETE, at any insert or at
\* the commit) the store still holds exactly those rows when the function
\* returns: the delete and the partial inserts are discarded.
C23_ReplacementTransactional ==
    /\ InTransaction => products = products_at_start
    /\ FailedBeforeCommit =>
          /\ products = products_at_start
          /\ StoredRows(products, category)
                = StoredRows(products_at_start, category)

\* C23: the second insert of a batch failed after the DELETE had removed the
\* rows of an earlier scrape of the category from the connection's copy, and
\* the function has returned.
C23_Witness ==
    /\ pc = "done"
    /\ FailedBeforeCommit
    /\ insert_index = 2
    /\ Len(products_data) >= 2
    /\ StoredRows(products_at_start, category) # <<>>
    /\ products = products_at_start

-----------------------------------------------------------------------------
(* Properties of the rows of other categories *)

\* The stored rows whose category is not c, in the order of the table.
RowsOfOthers(rows, c) ==
    LET OfOther(row) == row.category # c
    IN  SelectSeq(rows, OfOther)

\* An invocation of scrape_product_data is under way or has just returned.
Scraping == pc \notin {"idle", "view_query", "viewed"}

\* The number of records of a batch, and of rows of category c, with a name.
TimesInBatch(batch, name) ==
    Cardinality({i \in 1..Len(batch) : batch[i].name = name})

TimesStored(name, c) ==
    Cardinality({i \in 1..Len(products) :
                    products[i].name = name /\ products[i].category = c})

\* The previous invocation and the current one have both replaced their
\* category, and the two categories differ.
TwoCategoriesScraped ==
    /\ pc = "done"
    /\ committed
    /\ prev_run.persisted
    /\ prev_run.category # category

\* The names each of the two batches holds once.
SharedNames ==
    {products_data[i].name : i \in 1..Len(products_data)}
        \cap {n \in {prev_run.products_data[i].name :
                        i \in 1..Len(prev_run.products_data)} :
                 /\ TimesInBatch(products_data, n) = 1
                 /\ TimesInBatch(prev_run.products_data, n) = 1}

\* C24: at every step and for every outcome of a scrape of category C the
\* rows of the other categories are the rows the store held at the call;
\* an item name that the scrapes of two different categories each extracted
\* once is stored in two rows, one for each category; and a scrape that ends
\* by page timeout leaves the whole table as it was at the call.
C24_OtherCategoriesUntouched ==
    /\ Scraping =>
          RowsOfOthers(products, category)
              = RowsOfOthers(products_at_start, category)
    /\ TwoCategoriesScraped =>
          \A n \in SharedNames :
              /\ TimesStored(n, category) = 1
              /\ TimesStored(n, prev_run.category) = 1
    /\ (pc = "done" /\ timed_out) => products = products_at_start

\* C24: a scrape of one category has replaced its rows while the store held
\* rows of another category, and a name is in the batches of both.
C24_Witness ==
    /\ TwoCategoriesScraped
    /\ SharedNames # {}
    /\ RowsOfOthers(products_at_start, category) # <<>>
    /\ RowsOfOthers(products, category) = RowsOfOthers(products_at_start, category)

-----------------------------------------------------------------------------
(* Properties of the price lookup *)

\* The text of a price field of the element, empty when the element has no
\* such field.
FieldText(field) == IF field = NULL THEN <<>> ELSE Strip(field)

PriceReturned == price_pc = "return"

\* C25: extract_price_info returns for every element; when the discounted
\* price field is not empty, price is its text whatever the plain price
\* field holds, and original_price is the text of the original price field
\* (empty when there is none); when there is no discounted price, price is
\* the text of the plain price field (empty when there is none) and
\* original_price and discount_percentage are empty.  So a discount
\* percentage comes with an original price, and an original price with the
\* discounted price as price.
C25_TwoTierPriceLookup ==
    /\ price_pc = "call" => extract_price_info(product_element) # {}
    /\ PriceReturned =>
          LET discounted == FieldText(product_element.discountedPrice)
              original == FieldText(product_element.originalPrice)
              plain == FieldText(product_element.price)
          IN  /\ discounted # <<>> =>
                    /\ price_info.price = discounted
                    /\ price_info.original_price = original
              /\ discounted = <<>> =>
                    /\ price_info.price = plain
                    /\ price_info.original_price = <<>>
                    /\ price_info.discount_percentage = <<>>
              /\ price_info.discount_percentage # <<>> =>
                    price_info.original_price # <<>>
              /\ price_info.original_price # <<>> =>
                    discounted # <<>> /\ price_info.price = discounted

\* C25: an element with a discounted, an original and a plain price, all
\* different: the discounted price was returned as price, with the original
\* price and a discount percentage.
C25_Witness ==
    /\ PriceReturned
    /\ product_element.discountedPrice = <<"7", "5">>
    /\ product_element.originalPrice = <<"1", "0", "0">>
    /\ product_element.price = <<"$", "9">>
    /\ price_info.price = <<"7", "5">>
    /\ price_info.original_price = <<"1", "0", "0">>
    /\ price_info.discount_percentage = <<"2", "5", ".", "0", "%">>

=============================================================================
